---- MODULE Spec2Model ----
(***************************************************************************)
(* Model of analyze_excel.py: the workbook inspector.  The script loads a  *)
(* workbook, prints a banner and the sheet names, and for every sheet      *)
(* prints its dimensions, the header row and the first data rows, all      *)
(* inside one try/except.  The program counter pc names the source line of *)
(* the next statement; one action models one statement (a loop head is     *)
(* merged with the first statement of its body).                           *)
(***************************************************************************)
EXTENDS Integers, Sequences, FiniteSets

\* ------------------------------------------------------------------ bounds
\* Largest sheet of the catalogue and longest workbook the model loads.
MaxRow == 8
MaxCol == 25
MaxSheets == 2

\* -------------------------------------------------------- program literals
\* range(1, min(ws.max_column + 1, 20)) of the header loop.
HeaderLimit == 20
\* range(1, min(ws.max_column + 1, 20)) of the data-row column loop.
RowWidthLimit == 20
\* range(2, min(7, ws.max_row + 1)): first data row and the literal 7.
FirstDataRow == 2
DataRowLimit == 7
\* row_data[:10]
ShownCols == 10

VARIABLES
    file,        \* the document at excel_file (the sheets it holds)
    wb,          \* the loaded workbook: a sequence of sheets
    pc,          \* source line of the next statement, "done" or "uncaught"
    sheet_iter,  \* how many names the for loop of line 15 has consumed
    sheet_name,  \* loop variable of line 15
    ws,          \* the sheet wb[sheet_name], held as its position in wb
    headers,     \* list built at lines 23-26
    col,         \* loop variable of lines 24 and 36
    i,           \* enumerate index of line 29
    row,         \* loop variable of line 34
    row_data,    \* list built at lines 35-38
    e,           \* the exception bound by "except Exception as e"
    out,         \* lines written to standard output
    stderr,      \* lines written to standard error
    accessed     \* arguments of the latest ws.cell call: <<ws, row, column>>

vars == <<file, wb, pc, sheet_iter, sheet_name, ws, headers, col, i, row,
          row_data, e, out, stderr, accessed>>

Min(a, b) == IF a < b THEN a ELSE b

\* The value of an empty cell.
None == 0

NoException == [type |-> "", msg |-> ""]

\* --------------------------------------------------------------- workbook
\* Cell content of the catalogue sheets: distinct per sheet and coordinate,
\* with some cells left empty.
Content(seed, r, c) ==
    IF (r + c) % 7 = 0 THEN None ELSE seed * 1000 + r * 100 + c

Sheet(title, seed, rows, cols) ==
    [title |-> title, max_row |-> rows, max_column |-> cols,
     cells |-> [p \in (1..rows) \X (1..cols) |-> Content(seed, p[1], p[2])]]

SheetCatalogue ==
    { Sheet("Summary", 1, MaxRow, MaxCol),
      Sheet("Budget", 2, 2, 20),
      Sheet("Actuals", 3, 6, 3),
      Sheet("Rates", 4, 3, 11),
      Sheet("Notes", 5, 1, 4),
      Sheet("NoRows", 6, 0, 5),
      Sheet("NoCols", 7, 4, 0) }

\* Workbooks: sequences of sheets with pairwise distinct titles.
Workbooks ==
    { w \in UNION { [1..n -> SheetCatalogue] : n \in 0..MaxSheets } :
        \A a, b \in DOMAIN w : a # b => w[a].title # w[b].title }

\* wb.sheetnames
sheetnames(w) == [k \in DOMAIN w |-> w[k].title]

\* wb[sheet_name]
SheetIndex(w, name) == CHOOSE k \in DOMAIN w : w[k].title = name

\* ws.cell(row=r, column=c).value: a cell outside the stored grid is empty.
CellValue(sheet, r, c) ==
    IF <<r, c>> \in DOMAIN sheet.cells THEN sheet.cells[<<r, c>>] ELSE None

\* --------------------------------------------------------------- failures
LoadErrors ==
    { [type |-> "FileNotFoundError", msg |-> "No such file or directory"],
      [type |-> "InvalidFileException", msg |-> "File is not a zip file"] }

ReportErrors ==
    { [type |-> "UnicodeEncodeError", msg |-> "codec can't encode character"] }

\* A narrower clause, except FileNotFoundError.
CatchesFileNotFound(x) == x.type = "FileNotFoundError"

\* except Exception: every exception the load and the report raise derives
\* from Exception.
Catches(x) == x \in LoadErrors \cup ReportErrors

\* f"{e}"
Str(x) == x.msg

\* ----------------------------------------------------------- output lines
\* A printed line: what it is, the number it shows (header index, row number),
\* the values it shows, and the literal text that ends it.
Line(kind, idx, vals, tail) ==
    [kind |-> kind, idx |-> idx, vals |-> vals, tail |-> tail]

print(l) == out' = Append(out, l)

\* The header range without its limit: range(1, ws.max_column + 1).
HeaderStopUnbounded(sheet) == sheet.max_column + 1

\* line 24: the stop of range(1, min(ws.max_column + 1, 20)).
HeaderStop(sheet) == Min(sheet.max_column + 1, HeaderLimit)

\* The column range without the sheet's width: range(1, 20).
RowWidthStopNoMin(sheet) == RowWidthLimit

\* line 36: the stop of range(1, min(ws.max_column + 1, 20)).
RowWidthStop(sheet) == Min(sheet.max_column + 1, RowWidthLimit)

\* The row range one short: range(2, min(7, ws.max_row)).
DataRowStopOffByOne(sheet) == Min(DataRowLimit, sheet.max_row)

\* line 34: the stop of range(2, min(7, ws.max_row + 1)).
DataRowStop(sheet) == Min(DataRowLimit, sheet.max_row + 1)

\* The row printed without the slice: row_data.
ShownAll(data) == data

\* row_data[:10]
Shown(data) == SubSeq(data, 1, Min(Len(data), ShownCols))

\* ------------------------------------------------------------------- Init
Init ==
    /\ file \in Workbooks
    /\ wb = <<>>
    /\ pc = "L8"
    /\ sheet_iter = 0
    /\ sheet_name = ""
    /\ ws = 0
    /\ headers = <<>>
    /\ col = 0
    /\ i = 0
    /\ row = 0
    /\ row_data = <<>>
    /\ e = NoException
    /\ out = <<>>
    /\ stderr = <<>>
    /\ accessed = <<0, 0, 0>>

\* ---------------------------------------------------------------- actions
\* line 8: wb = openpyxl.load_workbook(excel_file), the call returning.
LoadWorkbook ==
    /\ pc = "L8"
    /\ wb' = file
    /\ pc' = "L10"
    /\ UNCHANGED <<file, sheet_iter, sheet_name, ws, headers, col, i, row,
                   row_data, e, out, stderr, accessed>>

\* Where control goes when x is raised inside the try block.
Handler(x) == IF Catches(x) THEN "L42" ELSE "uncaught"

\* line 8: load_workbook raising.
LoadFails ==
    /\ pc = "L8"
    /\ \E x \in LoadErrors : e' = x /\ pc' = Handler(x)
    /\ UNCHANGED <<file, wb, sheet_iter, sheet_name, ws, headers, col, i, row,
                   row_data, out, stderr, accessed>>

\* line 10
PrintRule1 ==
    /\ pc = "L10"
    /\ print(Line("rule", 0, <<>>, ""))
    /\ pc' = "L11"
    /\ UNCHANGED <<file, wb, sheet_iter, sheet_name, ws, headers, col, i, row,
                   row_data, e, stderr, accessed>>

\* line 11
PrintTitle ==
    /\ pc = "L11"
    /\ print(Line("title", 0, <<>>, ""))
    /\ pc' = "L12"
    /\ UNCHANGED <<file, wb, sheet_iter, sheet_name, ws, headers, col, i, row,
                   row_data, e, stderr, accessed>>

\* line 12
PrintRule2 ==
    /\ pc = "L12"
    /\ print(Line("rule", 0, <<>>, ""))
    /\ pc' = "L13"
    /\ UNCHANGED <<file, wb, sheet_iter, sheet_name, ws, headers, col, i, row,
                   row_data, e, stderr, accessed>>

\* line 13
PrintSheetNames ==
    /\ pc = "L13"
    /\ print(Line("sheet_names", 0, sheetnames(wb), ""))
    /\ pc' = "L15"
    /\ UNCHANGED <<file, wb, sheet_iter, sheet_name, ws, headers, col, i, row,
                   row_data, e, stderr, accessed>>

\* The sheet loop walking the names backwards: reversed(wb.sheetnames).
NextSheetReversed ==
    /\ pc = "L15"
    /\ sheet_iter < Len(sheetnames(wb))
    /\ sheet_iter' = sheet_iter + 1
    /\ sheet_name' = sheetnames(wb)[Len(sheetnames(wb)) - sheet_iter]
    /\ pc' = "L16"
    /\ UNCHANGED <<file, wb, ws, headers, col, i, row, row_data, e, out,
                   stderr, accessed>>

\* line 15: for sheet_name in wb.sheetnames, binding the next name.
NextSheet ==
    /\ pc = "L15"
    /\ sheet_iter < Len(sheetnames(wb))
    /\ sheet_iter' = sheet_iter + 1
    /\ sheet_name' = sheetnames(wb)[sheet_iter + 1]
    /\ pc' = "L16"
    /\ UNCHANGED <<file, wb, ws, headers, col, i, row, row_data, e, out,
                   stderr, accessed>>

\* line 15: the sheet names are exhausted; the try block and the script end.
SheetsDone ==
    /\ pc = "L15"
    /\ sheet_iter >= Len(sheetnames(wb))
    /\ pc' = "done"
    /\ UNCHANGED <<file, wb, sheet_iter, sheet_name, ws, headers, col, i, row,
                   row_data, e, out, stderr, accessed>>

\* line 16
GetSheet ==
    /\ pc = "L16"
    /\ ws' = SheetIndex(wb, sheet_name)
    /\ pc' = "L17"
    /\ UNCHANGED <<file, wb, sheet_iter, sheet_name, headers, col, i, row,
                   row_data, e, out, stderr, accessed>>

\* line 17
PrintSheetRule1 ==
    /\ pc = "L17"
    /\ print(Line("sheet_rule", 0, <<>>, ""))
    /\ pc' = "L18"
    /\ UNCHANGED <<file, wb, sheet_iter, sheet_name, ws, headers, col, i, row,
                   row_data, e, stderr, accessed>>

\* line 18
PrintSheetName ==
    /\ pc = "L18"
    /\ print(Line("sheet", 0, <<sheet_name>>, ""))
    /\ pc' = "L19"
    /\ UNCHANGED <<file, wb, sheet_iter, sheet_name, ws, headers, col, i, row,
                   row_data, e, stderr, accessed>>

\* line 19
PrintSheetRule2 ==
    /\ pc = "L19"
    /\ print(Line("sheet_rule", 0, <<>>, ""))
    /\ pc' = "L20"
    /\ UNCHANGED <<file, wb, sheet_iter, sheet_name, ws, headers, col, i, row,
                   row_data, e, stderr, accessed>>

\* line 20
PrintDims ==
    /\ pc = "L20"
    /\ print(Line("dims", 0, <<wb[ws].max_row, wb[ws].max_column>>, ""))
    /\ pc' = "L23"
    /\ UNCHANGED <<file, wb, sheet_iter, sheet_name, ws, headers, col, i, row,
                   row_data, e, stderr, accessed>>

\* line 23, and the start of the range of line 24
InitHeaders ==
    /\ pc = "L23"
    /\ headers' = <<>>
    /\ col' = 1
    /\ pc' = "L24"
    /\ UNCHANGED <<file, wb, sheet_iter, sheet_name, ws, i, row, row_data, e,
                   out, stderr, accessed>>

\* The header read storing into the cell: ws.cell(row=1, column=col, value=col).
ReadHeaderCellWrites ==
    /\ pc = "L24"
    /\ col < HeaderStop(wb[ws])
    /\ accessed' = <<ws, 1, col>>
    /\ wb' = IF <<1, col>> \in DOMAIN wb[ws].cells
             THEN [wb EXCEPT ![ws].cells[<<1, col>>] = col]
             ELSE wb
    /\ headers' = Append(headers, col)
    /\ col' = col + 1
    /\ UNCHANGED <<file, pc, sheet_iter, sheet_name, ws, i, row, row_data,
                   e, out, stderr>>

\* lines 24-26: one iteration of the header loop.
ReadHeaderCell ==
    /\ pc = "L24"
    /\ col < HeaderStop(wb[ws])
    /\ accessed' = <<ws, 1, col>>
    /\ headers' = Append(headers, CellValue(wb[ws], 1, col))
    /\ col' = col + 1
    /\ UNCHANGED <<file, wb, pc, sheet_iter, sheet_name, ws, i, row, row_data,
                   e, out, stderr>>

\* lines 24, 28: the range is exhausted; print the headers title.
PrintHeadersTitle ==
    /\ pc = "L24"
    /\ col >= HeaderStop(wb[ws])
    /\ print(Line("headers_title", 0, <<>>, ""))
    /\ i' = 1
    /\ pc' = "L29"
    /\ UNCHANGED <<file, wb, sheet_iter, sheet_name, ws, headers, col, row,
                   row_data, e, stderr, accessed>>

\* lines 29-30: one iteration of enumerate(headers, 1).
PrintHeader ==
    /\ pc = "L29"
    /\ i <= Len(headers)
    /\ print(Line("header", i, <<headers[i]>>, ""))
    /\ i' = i + 1
    /\ UNCHANGED <<file, wb, pc, sheet_iter, sheet_name, ws, headers, col, row,
                   row_data, e, stderr, accessed>>

\* lines 29, 33: the headers are exhausted; print the data rows title.
PrintRowsTitle ==
    /\ pc = "L29"
    /\ i > Len(headers)
    /\ print(Line("rows_title", 0, <<>>, ""))
    /\ row' = FirstDataRow
    /\ pc' = "L34"
    /\ UNCHANGED <<file, wb, sheet_iter, sheet_name, ws, headers, col, i,
                   row_data, e, stderr, accessed>>

\* lines 34-35: the next row of the range; row_data = [].
InitRowData ==
    /\ pc = "L34"
    /\ row < DataRowStop(wb[ws])
    /\ row_data' = <<>>
    /\ col' = 1
    /\ pc' = "L36"
    /\ UNCHANGED <<file, wb, sheet_iter, sheet_name, ws, headers, i, row, e,
                   out, stderr, accessed>>

\* line 34: the rows are exhausted; back to the sheet loop.
RowsDone ==
    /\ pc = "L34"
    /\ row >= DataRowStop(wb[ws])
    /\ pc' = "L15"
    /\ UNCHANGED <<file, wb, sheet_iter, sheet_name, ws, headers, col, i, row,
                   row_data, e, out, stderr, accessed>>

\* lines 36-38: one iteration of the column loop of a data row.
ReadRowCell ==
    /\ pc = "L36"
    /\ col < RowWidthStop(wb[ws])
    /\ accessed' = <<ws, row, col>>
    /\ row_data' = Append(row_data, CellValue(wb[ws], row, col))
    /\ col' = col + 1
    /\ UNCHANGED <<file, wb, pc, sheet_iter, sheet_name, ws, headers, i, row,
                   e, out, stderr>>

\* lines 36, 39: the columns are exhausted; print the row and advance.
PrintRow ==
    /\ pc = "L36"
    /\ col >= RowWidthStop(wb[ws])
    /\ print(Line("row", row, Shown(row_data), "..."))
    /\ row' = row + 1
    /\ pc' = "L34"
    /\ UNCHANGED <<file, wb, sheet_iter, sheet_name, ws, headers, col, i,
                   row_data, e, stderr, accessed>>

\* The statements of the report that call print, ws.cell or wb[...].
RaisingPCs == {"L10", "L11", "L12", "L13", "L16", "L17", "L18", "L19", "L20",
               "L24", "L29", "L36"}

\* lines 10-39: a statement of the report raising.
ReportFails ==
    /\ pc \in RaisingPCs
    /\ \E x \in ReportErrors : e' = x /\ pc' = Handler(x)
    /\ UNCHANGED <<file, wb, sheet_iter, sheet_name, ws, headers, col, i, row,
                   row_data, out, stderr, accessed>>

\* line 42: print(f"Error: {e}")
PrintError ==
    /\ pc = "L42"
    /\ print(Line("error", 0, <<Str(e)>>, ""))
    /\ pc' = "L44"
    /\ UNCHANGED <<file, wb, sheet_iter, sheet_name, ws, headers, col, i, row,
                   row_data, e, stderr, accessed>>

\* The handler inside the sheet loop: after the trace, on to the next sheet.
PrintTraceResume ==
    /\ pc = "L44"
    /\ stderr' = Append(stderr, Line("trace", 0, <<e.type, e.msg>>, ""))
    /\ pc' = "L15"
    /\ UNCHANGED <<file, wb, sheet_iter, sheet_name, ws, headers, col, i, row,
                   row_data, e, out, accessed>>

\* lines 43-44: traceback.print_exc() writes the trace to sys.stderr.
PrintTrace ==
    /\ pc = "L44"
    /\ stderr' = Append(stderr, Line("trace", 0, <<e.type, e.msg>>, ""))
    /\ pc' = "done"
    /\ UNCHANGED <<file, wb, sheet_iter, sheet_name, ws, headers, col, i, row,
                   row_data, e, out, accessed>>

Next ==
    \/ LoadWorkbook
    \/ LoadFails
    \/ PrintRule1
    \/ PrintTitle
    \/ PrintRule2
    \/ PrintSheetNames
    \/ NextSheet
    \/ SheetsDone
    \/ GetSheet
    \/ PrintSheetRule1
    \/ PrintSheetName
    \/ PrintSheetRule2
    \/ PrintDims
    \/ InitHeaders
    \/ ReadHeaderCell
    \/ PrintHeadersTitle
    \/ PrintHeader
    \/ PrintRowsTitle
    \/ InitRowData
    \/ RowsDone
    \/ ReadRowCell
    \/ PrintRow
    \/ ReportFails
    \/ PrintError
    \/ PrintTrace

Spec == Init /\ [][Next]_vars

\* The interpreter runs the script to its end: a statement that can run does.
FairSpec == Spec /\ WF_vars(Next)

\* ============================================================ properties
\* Reading the report back: the lines of one sheet's section.
IsSheetLine(l) == l.kind = "sheet"
IsSheetNamesLine(l) == l.kind = "sheet_names"
IsDimsLine(l) == l.kind = "dims"
IsHeadersTitle(l) == l.kind = "headers_title"
IsHeaderLine(l) == l.kind = "header"
IsRowsTitle(l) == l.kind = "rows_title"
IsRowLine(l) == l.kind = "row"
IsErrorLine(l) == l.kind = "error"
IsTraceLine(l) == l.kind = "trace"

Positions(kind) == { k \in DOMAIN out : out[k].kind = kind }

\* Where the banner of sheet s names it (empty while it is not printed).
BannerPositions(s) ==
    { k \in Positions("sheet") : out[k].vals = <<wb[s].title>> }

\* The lines from the banner at k up to the next sheet's banner.
SectionFrom(k) ==
    LET later == { j \in Positions("sheet") : j > k }
        last == IF later = {} THEN Len(out)
                ELSE (CHOOSE j \in later : \A j2 \in later : j <= j2) - 1
    IN SubSeq(out, k, last)

Section(s) ==
    IF BannerPositions(s) = {} THEN <<>>
    ELSE SectionFrom(CHOOSE k \in BannerPositions(s) :
                        \A k2 \in BannerPositions(s) : k <= k2)

HeaderLines(s) == SelectSeq(Section(s), IsHeaderLine)
RowLines(s) == SelectSeq(Section(s), IsRowLine)

Loaded == pc # "L8" /\ e \notin LoadErrors
Sheets == IF Loaded THEN DOMAIN wb ELSE {}

\* The loop body of line 15 has run to its end for sheet s.
Completed(s) ==
    /\ e = NoException
    /\ \/ s < sheet_iter
       \/ s = sheet_iter /\ pc = "L15"
       \/ s <= sheet_iter /\ pc = "done"

\* The header lines of sheet s are all printed.
HeadersPrinted(s) == Len(SelectSeq(Section(s), IsRowsTitle)) > 0

Succeeded == pc = "done" /\ e = NoException

\* C1: once the header section of a sheet is printed, it holds exactly
\* min(columnCount, 20) lines, numbered 1..min(columnCount, 20), line n
\* showing the value of cell (1, n).
C1_HeaderLinesUpTo20 ==
    \A s \in Sheets :
        HeadersPrinted(s) =>
            /\ Len(HeaderLines(s)) = Min(wb[s].max_column, 20)
            /\ \A n \in DOMAIN HeaderLines(s) :
                  /\ HeaderLines(s)[n].idx = n
                  /\ HeaderLines(s)[n].vals = <<CellValue(wb[s], 1, n)>>

\* C2: the data-row lines of a sheet are numbered 2, 3, ... in ascending order
\* without gaps or repeats and never pass min(6, rowCount); once the sheet is
\* finished they are exactly the rows 2..min(6, rowCount) (none when
\* rowCount < 2).
C2_DataRows2ToMin6 ==
    \A s \in Sheets :
        LET last == Min(6, wb[s].max_row)
            count == IF last < 2 THEN 0 ELSE last - 1
        IN /\ \A n \in DOMAIN RowLines(s) : RowLines(s)[n].idx = n + 1
           /\ Len(RowLines(s)) <= count
           /\ Completed(s) => Len(RowLines(s)) = count

\* A finished sheet of 8 or more rows shows five rows, 2..6, next to a
\* finished sheet of one row that shows none.
C2_Witness ==
    /\ Succeeded
    /\ \E s \in Sheets :
          /\ wb[s].max_row >= 8
          /\ [n \in DOMAIN RowLines(s) |-> RowLines(s)[n].idx] = <<2, 3, 4, 5, 6>>
    /\ \E s \in Sheets : wb[s].max_row = 1 /\ RowLines(s) = <<>>

\* C3: every data-row line shows its row number r, then the values of the
\* cells (r, 1)..(r, min(columnCount, 10)) in column order, then the ellipsis
\* marker, whatever the column count.
C3_RowLineFirst10AndEllipsis ==
    \A s \in Sheets :
        \A n \in DOMAIN RowLines(s) :
            LET l == RowLines(s)[n]
            IN /\ l.vals = [c \in 1..Min(wb[s].max_column, 10) |->
                               CellValue(wb[s], l.idx, c)]
               /\ Len(l.vals) <= 10
               /\ l.tail = "..."

\* A truncated row (more than 10 columns) and an untruncated one (3 columns)
\* are both printed, each with the marker.
C3_Witness ==
    /\ \E s \in Sheets :
          /\ wb[s].max_column > 10
          /\ Len(RowLines(s)) > 0
          /\ Len(RowLines(s)[1].vals) = 10
          /\ RowLines(s)[1].tail = "..."
    /\ \E s \in Sheets :
          /\ wb[s].max_column = 3
          /\ Len(RowLines(s)) > 0
          /\ Len(RowLines(s)[1].vals) = 3
          /\ RowLines(s)[1].tail = "..."

\* The titles the sheet banners of the report name, in print order.
BannerTitles == LET b == SelectSeq(out, IsSheetLine)
                IN [k \in DOMAIN b |-> b[k].vals[1]]

\* The place of a line within its sheet section (0: not part of the order).
Rank(kind) ==
    CASE kind = "sheet" -> 1
      [] kind = "dims" -> 2
      [] kind = "headers_title" -> 3
      [] kind = "header" -> 4
      [] kind = "rows_title" -> 5
      [] kind = "row" -> 6
      [] OTHER -> 0

IsPrefix(a, b) == Len(a) <= Len(b) /\ a = SubSeq(b, 1, Len(a))

\* C4: the sheet-name line lists the workbook's sheet names in workbook
\* order and comes before every sheet section; the sections printed so far
\* follow the workbook order; a successful run ends with exactly one section
\* (banner, dimensions, headers, data rows, in that order) per sheet.
C4_OneSectionPerSheetInOrder ==
    Loaded =>
      /\ \A k \in Positions("sheet_names") : out[k].vals = sheetnames(wb)
      /\ Cardinality(Positions("sheet_names")) <= 1
      /\ \A k \in Positions("sheet_names"), j \in DOMAIN out :
            out[j].kind \in {"sheet_rule", "sheet", "dims", "headers_title",
                             "header", "rows_title", "row"} => k < j
      /\ Positions("sheet") # {} => Positions("sheet_names") # {}
      /\ IsPrefix(BannerTitles, sheetnames(wb))
      /\ Succeeded =>
            /\ Cardinality(Positions("sheet_names")) = 1
            /\ BannerTitles = sheetnames(wb)
            /\ \A s \in DOMAIN wb :
                  LET sec == Section(s)
                      dims == SelectSeq(sec, IsDimsLine)
                  IN /\ Cardinality(BannerPositions(s)) = 1
                     /\ dims = <<Line("dims", 0, <<wb[s].max_row,
                                                   wb[s].max_column>>, "")>>
                     /\ Len(SelectSeq(sec, IsHeadersTitle)) = 1
                     /\ Len(SelectSeq(sec, IsRowsTitle)) = 1
                     /\ \A a, b \in DOMAIN sec :
                           a < b /\ Rank(sec[a].kind) > 0 /\ Rank(sec[b].kind) > 0
                               => Rank(sec[a].kind) <= Rank(sec[b].kind)

\* A successful run over a workbook of two sheets, both sections printed.
C4_Witness ==
    /\ Succeeded
    /\ Len(wb) = 2
    /\ BannerTitles = <<wb[1].title, wb[2].title>>
    /\ Len(RowLines(1)) > 0
    /\ Len(HeaderLines(2)) > 0

\* C5: when the load fails the exception is caught; the run prints the error
\* line with the failure's description, then the trace, and nothing else, and
\* ends normally.
C5_LoadFailureReported ==
    e \in LoadErrors =>
        /\ pc \in {"L42", "L44", "done"}
        /\ wb = <<>>
        /\ pc = "L42" => out = <<>> /\ stderr = <<>>
        /\ pc = "L44" => out = <<Line("error", 0, <<e.msg>>, "")>> /\ stderr = <<>>
        /\ pc = "done" =>
              /\ out = <<Line("error", 0, <<e.msg>>, "")>>
              /\ stderr = <<Line("trace", 0, <<e.type, e.msg>>, "")>>

\* The run has ended after a load that failed on a file that is no workbook.
C5_Witness ==
    /\ pc = "done"
    /\ e \in LoadErrors
    /\ e.type = "InvalidFileException"
    /\ Len(out) = 1
    /\ Len(stderr) = 1

\* C6: an exception raised while reporting is caught; what was printed
\* stays, the error line and the trace follow exactly once each, and no other
\* line is printed after the failure.
C6_Step ==
    /\ IsPrefix(out, out')
    /\ e' # NoException =>
          \/ out' = out
          \/ pc = "L42" /\ out' = Append(out, Line("error", 0, <<e.msg>>, ""))
    /\ e # NoException => e' = e
    /\ pc \in {"done", "uncaught"} => pc' = pc

C6_State ==
    e \in ReportErrors =>
        /\ pc \in {"L42", "L44", "done"}
        /\ Len(SelectSeq(out, IsErrorLine)) = IF pc = "L42" THEN 0 ELSE 1
        /\ pc # "L42" => out[Len(out)] = Line("error", 0, <<e.msg>>, "")
        /\ stderr = IF pc = "done"
                    THEN <<Line("trace", 0, <<e.type, e.msg>>, "")>>
                    ELSE <<>>

\* C6: every step keeps the printed output and adds at most the error line
\* after a failure, and every state after a report failure is in the handler
\* or at the end with the error line last and at most one trace.
C6_ReportFailureStopsReport == [][C6_Step]_vars /\ []C6_State

\* The run has ended after a failure in the middle of a sheet's header
\* lines: the error line follows a header line.
C6_Witness ==
    /\ pc = "done"
    /\ e \in ReportErrors
    /\ Len(out) > 2
    /\ out[Len(out) - 1].kind = "header"
    /\ out[Len(out)].kind = "error"
    /\ Len(stderr) = 1

\* C7 (as stated): after the load the workbook never changes, the file never
\* changes, and standard output is the only stream the run writes.
C7_OnlyStdoutWritten ==
    [][/\ pc # "L8" => wb' = wb
       /\ file' = file
       /\ stderr' = stderr]_vars

\* C7 (amended): after the load the workbook never changes, the file never
\* changes, and the run writes standard output and, only when it has failed,
\* the one trace to standard error.
C7_Step ==
    /\ pc # "L8" => wb' = wb
    /\ file' = file
    /\ stderr' # stderr =>
          /\ e # NoException
          /\ stderr = <<>>
          /\ stderr' = <<Line("trace", 0, <<e.type, e.msg>>, "")>>

C7_State ==
    /\ Loaded => wb = file
    /\ e = NoException => stderr = <<>>

\* C7 (amended): no step changes the loaded workbook or the file, and the
\* only write besides standard output is the trace of a failed run.
C7_WorkbookReadOnly == [][C7_Step]_vars /\ []C7_State

\* A run that read cells of two sheets, failed and wrote its trace.
C7_Witness ==
    /\ pc = "done"
    /\ e \in ReportErrors
    /\ Len(wb) = 2
    /\ wb = file
    /\ accessed[1] = 2
    /\ accessed[2] >= 2
    /\ Len(stderr) = 1

\* C8: when a data row is printed, the values read for it are the cells
\* (r, 1)..(r, min(columnCount, 20)) in column order.
C8_RowDataUpTo20 ==
    [][pc = "L36" /\ pc' = "L34" =>
          row_data = [c \in 1..Min(wb[ws].max_column, 20) |->
                         CellValue(wb[ws], row, c)]]_vars

\* C9: every run ends, and no sheet gets more than 20 header lines or more
\* than 5 data-row lines.
C9_Bounded ==
    \A s \in Sheets : Len(HeaderLines(s)) <= 20 /\ Len(RowLines(s)) <= 5

\* C9: the run reaches its end, and the per-sheet line limits hold throughout.
C9_TerminatesBounded == <>(pc = "done") /\ []C9_Bounded

\* The run has ended with the section of a sheet larger than both limits.
C9_Witness ==
    /\ pc = "done"
    /\ \E s \in Sheets :
          /\ wb[s].max_column > 20
          /\ wb[s].max_row > 6
          /\ Len(RowLines(s)) = 5
          /\ Len(HeaderLines(s)) > 0

\* C10: every ws.cell call names a column in 1..columnCount and a row >= 1;
\* a data-row call (row >= 2) names a row <= rowCount; a row beyond rowCount
\* is only row 1 of a sheet of zero rows; a sheet of zero columns is never
\* read.
C10_ReadsInsideGrid ==
    accessed # <<0, 0, 0>> =>
        LET sheet == wb[accessed[1]]
            r == accessed[2]
            c == accessed[3]
        IN /\ accessed[1] \in DOMAIN wb
           /\ 1 <= c /\ c <= sheet.max_column
           /\ 1 <= r
           /\ r >= 2 => r <= sheet.max_row
           /\ r > sheet.max_row => r = 1 /\ sheet.max_row = 0
           /\ sheet.max_column # 0

\* A sheet of zero rows had its row 1 read, and the sheet of zero columns
\* after it was finished without a read.
C10_Witness ==
    /\ pc = "done"
    /\ e = NoException
    /\ Len(wb) = 2
    /\ wb[1].max_row = 0
    /\ wb[2].max_column = 0
    /\ accessed[1] = 1
    /\ accessed[2] = 1

====
